---- MODULE Spec2Model ----
(***************************************************************************)
(* A model of ts-simple-ast's LanguageService facade                       *)
(* (src/src/compiler/tools/LanguageService.ts): the two host objects it    *)
(* hands to the TypeScript engine, the program it keeps in step with the   *)
(* tracked source files, and its public query and rename operations.       *)
(*                                                                         *)
(* A source file's text is a sequence of identifier tokens; an identifier  *)
(* is a sequence of characters.  The TypeScript engine is a black box: its *)
(* return values are inputs drawn with \E, and its use of the host         *)
(* callbacks is modelled by the callbacks it is known to make.             *)
(***************************************************************************)
EXTENDS Integers, Sequences, FiniteSets

\* Longest source text, in tokens.
MaxLen == 2
\* Cap on the version counter (the code's counter is unbounded).
MaxVersion == 3
\* Most rename locations one renameLocations call is given.
MaxLocs == 3

PathA == "/a.ts"
PathB == "/b.ts"
Paths == {PathA, PathB}

X == <<"x">>
Y == <<"y">>
Names == {X, Y}
Whitespace == {" ", "\t", "\n"}
\* The new names a caller passes to renameNode / renameLocations.
NewNames == {<<>>, <<" ">>, <<" ", "\t">>, X, Y}

\* Texts a caller creates or edits a file to: 1..MaxLen tokens x.
InputTexts == UNION {[1..k -> {X}] : k \in 1..MaxLen}
\* The data compilerHost.writeFile is given.
WriteData == {<<Y>>}

VARIABLES
    cache,      \* compilerFactory's source files: tracked path -> full text
    storage,    \* the file system behind fileSystemWrapper: path -> text
    version,    \* the constructor's local counter `version`
    issued,     \* every token getScriptVersion has returned, in call order
    lastToken,  \* per path, the token of the last getScriptVersion call for it
    changed,    \* per path, whether its content changed since that call
    program,    \* this.program: [state, paths]
    filledSettings, \* the caller's settings objects that carry the _filled mark
    result      \* the last operation and what it returned or threw

vars == <<cache, storage, version, issued, lastToken, changed, program, filledSettings, result>>

-----------------------------------------------------------------------------
(* Values *)

\* A JavaScript value that may be undefined; items is meaningful when defined.
Undefined == [defined |-> FALSE, items |-> <<>>]
Defined(v) == [defined |-> TRUE, items |-> v]

NoArg == [pos |-> 0, name |-> <<>>]
NoToken == <<>>

Outcome(op, path, arg, kind, raw, value) ==
    [op |-> op, path |-> path, arg |-> arg, kind |-> kind, raw |-> raw, value |-> value]

Put(f, k, v) == [x \in DOMAIN f \cup {k} |-> IF x = k THEN v ELSE f[x]]
Drop(f, k) == [x \in DOMAIN f \ {k} |-> f[x]]

\* (version++).toString(): the decimal digits of a non-negative integer.
Digit(d) == <<"0", "1", "2", "3", "4", "5", "6", "7", "8", "9">>[d + 1]
RECURSIVE toString(_)
toString(n) == IF n < 10 THEN <<Digit(n)>> ELSE toString(n \div 10) \o <<Digit(n % 10)>>

DigitValue(c) == CHOOSE d \in 0..9 : Digit(d) = c
RECURSIVE ParseInt(_)
\* The engine's reading of a version token as an integer.
ParseInt(s) ==
    IF Len(s) = 1 THEN DigitValue(s[1])
    ELSE 10 * ParseInt(SubSeq(s, 1, Len(s) - 1)) + DigitValue(s[Len(s)])

-----------------------------------------------------------------------------
(* The collaborators: compilerFactory, fileSystemWrapper, errors, Program *)

containsSourceFileAtPath(c, p) == p \in DOMAIN c
getSourceFilePaths(c) == DOMAIN c
fileSystemExistsSync(s, p) == p \in DOMAIN s

\* compilerFactory.addOrGetSourceFileFromFilePath: the cached file, else the
\* file loaded from storage (which adds it), else nothing.
addOrGetSourceFileFromFilePath(c, s, p) ==
    IF p \in DOMAIN c THEN c
    ELSE IF p \in DOMAIN s THEN Put(c, p, s[p])
    ELSE c

\* errors.throwIfNotStringOrWhitespace: empty or only whitespace.
IsNullOrWhitespace(name) == \A i \in 1..Len(name) : name[i] \in Whitespace

\* Program.reset(paths, host): the program is torn down and keeps the paths.
ProgramReset(paths) == [state |-> "Stale", paths |-> paths]

\* new Program(global, paths, host)
NewProgram(paths) == [state |-> "Built", paths |-> paths]

\* Any use of the program: one that was reset is built again from the paths
\* it was reset with.
programAccess(prog) == [state |-> "Built", paths |-> prog.paths]

-----------------------------------------------------------------------------
(* LanguageService: constructor *)

\* resetProgram(), lines 99-101, as subscribed on lines 91-92: called with the
\* cache as it is once the file was added or removed.
resetProgramStale(c) == program
resetProgram(c) == ProgramReset(getSourceFilePaths(c))

\* The program after an operation that takes the cache from c to c2: the
\* added / removed notifications fire when the tracked set changed.
Notified(c, c2) == IF DOMAIN c2 # DOMAIN c THEN resetProgram(c2) ELSE program

\* fileExistsSync, line 34 (languageServiceHost.fileExists, line 60)
fileExistsSync(c, s, p) == containsSourceFileAtPath(c, p) \/ fileSystemExistsSync(s, p)

\* What a path's content is to the engine: the cached text, else storage's.
Content(c, s, p) ==
    IF p \in DOMAIN c THEN Defined(c[p])
    ELSE IF p \in DOMAIN s THEN Defined(s[p])
    ELSE Undefined

-----------------------------------------------------------------------------
(* languageServiceHost, lines 35-62 *)

\* getScriptVersion, lines 39-41: (version++).toString()
getScriptVersionNoIncrement(v) == [token |-> toString(v), version |-> v]
getScriptVersion(v) == [token |-> toString(v), version |-> v + 1]

\* getScriptSnapshot, lines 42-46: undefined for a path that is nowhere, else
\* the full text of the file addOrGetSourceFileFromFilePath gives.
getScriptSnapshotUnguarded(c, s, p) ==
    [kind |-> IF p \in DOMAIN addOrGetSourceFileFromFilePath(c, s, p) THEN "ok" ELSE "TypeError",
     cache |-> addOrGetSourceFileFromFilePath(c, s, p),
     value |-> IF p \in DOMAIN addOrGetSourceFileFromFilePath(c, s, p)
               THEN Defined(addOrGetSourceFileFromFilePath(c, s, p)[p]) ELSE Undefined]
getScriptSnapshotFromStorage(c, s, p) ==
    [kind |-> "ok", cache |-> c, value |-> Content(c, s, p)]
getScriptSnapshot(c, s, p) ==
    IF ~fileExistsSync(c, s, p)
    THEN [kind |-> "ok", cache |-> c, value |-> Undefined]
    ELSE [kind |-> "ok",
          cache |-> addOrGetSourceFileFromFilePath(c, s, p),
          value |-> Defined(addOrGetSourceFileFromFilePath(c, s, p)[p])]

\* fileSystemWrapper.readFileSync(path, encoding): the stored text, or a
\* file-not-found failure.
readFileSync(s, p, encoding) ==
    IF p \in DOMAIN s THEN [kind |-> "ok", value |-> Defined(s[p])]
    ELSE [kind |-> "FileNotFoundError", value |-> Undefined]

\* getScriptFileNames, line 38
getScriptFileNames(c) == getSourceFilePaths(c)

\* The directories: every path of the model lies in the root directory.
Directories == {"/", "/lib"}
dirName(p) == "/"
\* compilerFactory.containsDirectoryAtPath: a directory of a tracked file.
containsDirectoryAtPath(c, d) == \E p \in DOMAIN c : dirName(p) = d
\* fileSystemWrapper.directoryExistsSync: the root, or a directory of a file.
directoryExistsSync(s, d) == d = "/" \/ \E p \in DOMAIN s : dirName(p) = d

\* directoryExists, line 61
lsDirectoryExists(c, s, d) == containsDirectoryAtPath(c, d) \/ directoryExistsSync(s, d)

\* readFile, lines 55-59: the cached text when tracked, else storage's.
lsReadFileStorageFirst(c, s, p, encoding) ==
    IF fileSystemExistsSync(s, p) THEN readFileSync(s, p, encoding)
    ELSE IF containsSourceFileAtPath(c, p) THEN [kind |-> "ok", value |-> Defined(c[p])]
    ELSE readFileSync(s, p, encoding)
lsReadFile(c, s, p, encoding) ==
    IF containsSourceFileAtPath(c, p)
    THEN [kind |-> "ok", value |-> Defined(c[p])]
    ELSE readFileSync(s, p, encoding)

\* fileExists, line 60
lsFileExists(c, s, p) == fileExistsSync(c, s, p)

\* getNewLine, line 37: manipulationSettings.getNewLineKindAsString()
lsGetNewLine(cfg) == IF cfg.newLineKind = "CarriageReturnLineFeed" THEN <<"\r", "\n">> ELSE <<"\n">>

\* getCurrentDirectory, line 47
lsGetCurrentDirectory(cfg) == cfg.cwd

\* ts.getDefaultLibFileName(options): the library file of the target.
tsGetDefaultLibFileName(target) ==
    CASE target = "ES2017" -> "lib.es2017.full.d.ts"
      [] target = "ES2016" -> "lib.es2016.full.d.ts"
      [] target = "ES2015" -> "lib.es6.d.ts"
      [] OTHER -> "lib.d.ts"

\* getDefaultLibFileName, lines 48-53: the installed library on the real file
\* system, node_modules/typescript/lib under the current directory otherwise.
\* The options argument is not read: the global compiler options are.
lsGetDefaultLibFileName(cfg, options) ==
    IF cfg.realFs
    THEN cfg.tsDir \o <<tsGetDefaultLibFileName(cfg.target)>>
    ELSE cfg.cwd \o <<"node_modules", "typescript", "lib", tsGetDefaultLibFileName(cfg.target)>>

\* useCaseSensitiveFileNames, line 54
lsUseCaseSensitiveFileNames == TRUE

-----------------------------------------------------------------------------
(* compilerHost, lines 64-86 *)

\* getSourceFile, lines 65-68
compilerGetSourceFile(c, s, p) ==
    [cache |-> addOrGetSourceFileFromFilePath(c, s, p),
     value |-> IF p \in DOMAIN addOrGetSourceFileFromFilePath(c, s, p)
               THEN Defined(addOrGetSourceFileFromFilePath(c, s, p)[p]) ELSE Undefined]

\* getDefaultLibFileName, line 71
compilerGetDefaultLibFileName(cfg, options) == lsGetDefaultLibFileName(cfg, options)

\* writeFile, lines 72-74
compilerWriteFile(s, p, data) == Put(s, p, data)

\* getCurrentDirectory, line 75
compilerGetCurrentDirectory(cfg) == lsGetCurrentDirectory(cfg)

\* fileExists, line 80
compilerFileExists(c, s, p) == lsFileExists(c, s, p)

\* readFile, line 81: no encoding is passed on.
compilerReadFileFromStorage(c, s, p) == readFileSync(s, p, "none")
compilerReadFile(c, s, p) == lsReadFile(c, s, p, "none")

\* useCaseSensitiveFileNames, line 83
compilerUseCaseSensitiveFileNames == lsUseCaseSensitiveFileNames

\* getNewLine, line 84
compilerGetNewLine(cfg) == lsGetNewLine(cfg)

\* The settings the two hosts read: the file system's kind and current
\* directory, the compiler options' target, the manipulation settings' newline.
Configs ==
    [realFs : BOOLEAN,
     target : {"ES5", "ES2015", "ES2017"},
     newLineKind : {"LineFeed", "CarriageReturnLineFeed"},
     cwd : {<<"project">>},
     tsDir : {<<"usr", "lib", "node_modules", "typescript", "lib">>}]

-----------------------------------------------------------------------------
(* The state after construction, lines 29-93 *)

Init ==
    /\ cache = [p \in Paths |-> IF p = PathA THEN <<X>> ELSE <<X, X>>]
    /\ storage = [p \in {PathA} |-> <<X>>]
    /\ version = 0
    /\ issued = <<>>
    /\ lastToken = [p \in Paths |-> NoToken]
    /\ changed = [p \in Paths |-> TRUE]
    /\ program = NewProgram(getSourceFilePaths(cache))
    /\ filledSettings = {}
    /\ result = Outcome("constructor", PathA, NoArg, "ok", Undefined, Undefined)

\* changed, after a step that is not a getScriptVersion call.
Touched(c2, s2) ==
    [p \in Paths |-> changed[p] \/ Content(c2, s2, p) # Content(cache, storage, p)]

-----------------------------------------------------------------------------
(* The caller's changes to the file set *)

\* A source file is created at an untracked path; the added notification fires.
AddSourceFile(p, t) ==
    /\ ~containsSourceFileAtPath(cache, p)
    /\ cache' = Put(cache, p, t)
    /\ program' = Notified(cache, cache')
    /\ changed' = Touched(cache', storage)
    /\ result' = Outcome("addSourceFile", p, NoArg, "ok", Undefined, Undefined)
    /\ UNCHANGED <<storage, version, issued, lastToken, filledSettings>>

\* A tracked source file is removed; the removed notification fires.
RemoveSourceFile(p) ==
    /\ containsSourceFileAtPath(cache, p)
    /\ cache' = Drop(cache, p)
    /\ program' = Notified(cache, cache')
    /\ changed' = Touched(cache', storage)
    /\ result' = Outcome("removeSourceFile", p, NoArg, "ok", Undefined, Undefined)
    /\ UNCHANGED <<storage, version, issued, lastToken, filledSettings>>

\* A tracked file's text is edited in place: no notification.
EditText(p, t) ==
    /\ containsSourceFileAtPath(cache, p)
    /\ cache[p] # t
    /\ cache' = [cache EXCEPT ![p] = t]
    /\ changed' = Touched(cache', storage)
    /\ result' = Outcome("editText", p, NoArg, "ok", Undefined, Undefined)
    /\ UNCHANGED <<storage, version, issued, lastToken, program, filledSettings>>

\* getProgram(), lines 106-108, and a use of the program it returns.
GetProgram ==
    /\ program' = programAccess(program)
    /\ result' = Outcome("getProgram", PathA, NoArg, "ok", Undefined, Undefined)
    /\ UNCHANGED <<cache, storage, version, issued, lastToken, changed, filledSettings>>

-----------------------------------------------------------------------------
(* The engine's calls of the host callbacks, one call a step *)

HostGetScriptVersion(p) ==
    /\ version < MaxVersion
    /\ version' = getScriptVersion(version).version
    /\ issued' = Append(issued, getScriptVersion(version).token)
    /\ lastToken' = [lastToken EXCEPT ![p] = getScriptVersion(version).token]
    /\ changed' = [changed EXCEPT ![p] = FALSE]
    /\ result' = Outcome("getScriptVersion", p, NoArg, "ok",
                         [prev |-> lastToken[p], changed |-> changed[p]],
                         Defined(getScriptVersion(version).token))
    /\ UNCHANGED <<cache, storage, program, filledSettings>>

HostGetScriptSnapshot(p) ==
    /\ cache' = getScriptSnapshot(cache, storage, p).cache
    /\ program' = Notified(cache, cache')
    /\ changed' = Touched(cache', storage)
    /\ result' = Outcome("getScriptSnapshot", p, NoArg,
                         getScriptSnapshot(cache, storage, p).kind,
                         Content(cache, storage, p),
                         getScriptSnapshot(cache, storage, p).value)
    /\ UNCHANGED <<storage, version, issued, lastToken, filledSettings>>

HostReadFileLoading(p) ==
    /\ cache' = addOrGetSourceFileFromFilePath(cache, storage, p)
    /\ program' = Notified(cache, cache')
    /\ result' = Outcome("readFile", p, NoArg, lsReadFile(cache, storage, p, "none").kind,
                         Content(cache, storage, p),
                         lsReadFile(cache, storage, p, "none").value)
    /\ UNCHANGED <<storage, version, issued, lastToken, changed, filledSettings>>
HostReadFile(p) ==
    /\ result' = Outcome("readFile", p, NoArg, lsReadFile(cache, storage, p, "none").kind,
                         Content(cache, storage, p),
                         lsReadFile(cache, storage, p, "none").value)
    /\ UNCHANGED <<cache, storage, version, issued, lastToken, changed, program, filledSettings>>

HostFileExists(p) ==
    /\ result' = Outcome("fileExists", p, NoArg, "ok", Content(cache, storage, p),
                         Defined(lsFileExists(cache, storage, p)))
    /\ UNCHANGED <<cache, storage, version, issued, lastToken, changed, program, filledSettings>>

HostDirectoryExists(d) ==
    /\ result' = Outcome("directoryExists", d, NoArg, "ok", Undefined,
                         Defined(lsDirectoryExists(cache, storage, d)))
    /\ UNCHANGED <<cache, storage, version, issued, lastToken, changed, program, filledSettings>>

HostGetScriptFileNames ==
    /\ result' = Outcome("getScriptFileNames", PathA, NoArg, "ok", Undefined,
                         Defined(getScriptFileNames(cache)))
    /\ UNCHANGED <<cache, storage, version, issued, lastToken, changed, program, filledSettings>>

CompilerHostGetSourceFile(p) ==
    /\ cache' = compilerGetSourceFile(cache, storage, p).cache
    /\ program' = Notified(cache, cache')
    /\ changed' = Touched(cache', storage)
    /\ result' = Outcome("getSourceFile", p, NoArg, "ok", Content(cache, storage, p),
                         compilerGetSourceFile(cache, storage, p).value)
    /\ UNCHANGED <<storage, version, issued, lastToken, filledSettings>>

CompilerHostWriteFileThrough(p, data) ==
    /\ storage' = compilerWriteFile(storage, p, data)
    /\ cache' = IF containsSourceFileAtPath(cache, p) THEN [cache EXCEPT ![p] = data] ELSE cache
    /\ changed' = Touched(cache', storage')
    /\ result' = Outcome("writeFile", p, NoArg, "ok", Defined(data), Undefined)
    /\ UNCHANGED <<version, issued, lastToken, program, filledSettings>>
CompilerHostWriteFile(p, data) ==
    /\ storage' = compilerWriteFile(storage, p, data)
    /\ changed' = Touched(cache, storage')
    /\ result' = Outcome("writeFile", p, NoArg, "ok", Defined(data), Undefined)
    /\ UNCHANGED <<cache, version, issued, lastToken, program, filledSettings>>

HostNext ==
    \/ \E p \in Paths, t \in InputTexts : AddSourceFile(p, t)
    \/ \E p \in Paths : RemoveSourceFile(p)
    \/ \E p \in Paths, t \in InputTexts : EditText(p, t)
    \/ GetProgram
    \/ \E p \in Paths : HostGetScriptVersion(p)
    \/ \E p \in Paths : HostGetScriptSnapshot(p)
    \/ \E p \in Paths : HostReadFile(p)
    \/ \E p \in Paths : HostFileExists(p)
    \/ \E d \in Directories : HostDirectoryExists(d)
    \/ HostGetScriptFileNames
    \/ \E p \in Paths : CompilerHostGetSourceFile(p)
    \/ \E p \in Paths, d \in WriteData : CompilerHostWriteFile(p, d)

HostSpec == Init /\ [][HostNext]_vars

-----------------------------------------------------------------------------
(* What the engine does with the host when a query reaches it *)

\* The lists the engine returns where a list is expected: nothing, an empty
\* list, a list of one native record.
EngineLists == {Undefined, Defined(<<>>), Defined(<<1>>)}

RECURSIVE engineGetScriptVersions(_, _, _)
\* k calls of getScriptVersion in a row: the counter and the tokens after them.
engineGetScriptVersions(v, iss, k) ==
    IF k = 0 THEN [version |-> v, issued |-> iss]
    ELSE engineGetScriptVersions(getScriptVersion(v).version,
                                 Append(iss, getScriptVersion(v).token), k - 1)

\* A semantic query synchronizes with the host first: getScriptFileNames, then
\* getScriptVersion once per file name.
SemanticCalls == Cardinality(getSourceFilePaths(cache))

\* `results || []`
OrEmpty(raw) == IF raw.defined THEN raw.items ELSE <<>>

\* results.map(r => new Handle(global, r))
RECURSIVE mapHandles(_)
mapHandles(items) ==
    IF items = <<>> THEN <<>>
    ELSE <<[compilerObject |-> Head(items)]>> \o mapHandles(Tail(items))

-----------------------------------------------------------------------------
(* LanguageService: the queries, lines 149-331 *)

\* getDefinitionsAtPosition, lines 158-161
getDefinitionsAtPosition(raw) == Defined(mapHandles(OrEmpty(raw)))

\* getImplementationsAtPosition, lines 176-179
getImplementationsAtPosition(raw) == Defined(mapHandles(OrEmpty(raw)))

\* findReferencesAtPosition, lines 213-216
findReferencesAtPosition(raw) == Defined(mapHandles(OrEmpty(raw)))

\* findRenameLocations, lines 222-226
findRenameLocations(raw) == Defined(mapHandles(OrEmpty(raw)))

\* getFormattingEditsForRange, lines 234-236
getFormattingEditsForRange(raw) == Defined(mapHandles(OrEmpty(raw)))

\* getFormattingEditsForDocument, lines 243-245
getFormattingEditsForDocument(raw) == Defined(mapHandles(OrEmpty(raw)))

\* organizeImports, lines 329-330: the engine's list is mapped as it comes.
organizeImportsMap(raw) ==
    IF raw.defined THEN [kind |-> "ok", value |-> Defined(mapHandles(raw.items))]
    ELSE [kind |-> "TypeError", value |-> Undefined]

\* A query that passes the file path of a source file handle to a semantic
\* engine operation: the engine synchronizes, then fails for a file that is not
\* among the script file names, else returns raw, which the facade maps.
SemanticQuery(op, p, arg, fs, raw, value) ==
    /\ version + SemanticCalls <= MaxVersion
    /\ filledSettings' = fs
    /\ version' = engineGetScriptVersions(version, issued, SemanticCalls).version
    /\ issued' = engineGetScriptVersions(version, issued, SemanticCalls).issued
    /\ result' = IF containsSourceFileAtPath(cache, p)
                 THEN Outcome(op, p, arg, "ok", raw, value)
                 ELSE Outcome(op, p, arg, "EngineError", Undefined, Undefined)
    /\ UNCHANGED <<cache, storage, lastToken, changed, program>>

\* A query that passes a file path to a syntactic engine operation: the engine
\* asks getScriptSnapshot for the path and fails when it gets none, else asks
\* getScriptVersion once and returns raw.
SyntacticQuery(op, p, arg, fs, raw, value) ==
    /\ version + 1 <= MaxVersion
    /\ filledSettings' = fs
    /\ cache' = getScriptSnapshot(cache, storage, p).cache
    /\ program' = Notified(cache, cache')
    /\ IF getScriptSnapshot(cache, storage, p).value.defined
       THEN /\ version' = engineGetScriptVersions(version, issued, 1).version
            /\ issued' = engineGetScriptVersions(version, issued, 1).issued
            /\ result' = Outcome(op, p, arg, "ok", raw, value)
       ELSE /\ UNCHANGED <<version, issued>>
            /\ result' = Outcome(op, p, arg, "EngineError", Undefined, Undefined)
    /\ UNCHANGED <<storage, lastToken, changed>>

GetDefinitionsAtPosition(p, raw) ==
    SemanticQuery("getDefinitionsAtPosition", p, NoArg, filledSettings, raw, getDefinitionsAtPosition(raw))

GetImplementationsAtPosition(p, raw) ==
    SemanticQuery("getImplementationsAtPosition", p, NoArg, filledSettings, raw, getImplementationsAtPosition(raw))

FindReferencesAtPosition(p, raw) ==
    SemanticQuery("findReferencesAtPosition", p, NoArg, filledSettings, raw, findReferencesAtPosition(raw))

\* A referenced symbol as the engine returns it: the kind of its definition and
\* its references, each a node and whether it is a definition occurrence.
Reference(node, isDefinition) == [node |-> node, isDefinition |-> isDefinition]
ReferenceLists ==
    {<<Reference(1, TRUE), Reference(2, FALSE)>>,
     <<Reference(3, FALSE), Reference(4, TRUE), Reference(5, FALSE)>>}
DefinitionKinds == {"alias", "var"}
ReferencedSymbols == [kind : DefinitionKinds, references : ReferenceLists]

\* What the engine's findReferences returns: nothing, no symbol, one symbol, or
\* two symbols of different nodes.
EngineReferencedSymbols ==
    {Undefined, Defined(<<>>)}
        \cup {Defined(<<g>>) : g \in ReferencedSymbols}
        \cup {Defined(<<gh[1], gh[2]>>) :
                  gh \in {pair \in ReferencedSymbols \X ReferencedSymbols :
                             pair[1].references # pair[2].references}}

\* The inner loop of lines 199-202: the nodes one referenced symbol yields.
referencingNodesOfSymbolNoAlias(referenceSymbol) ==
    LET yielded == SelectSeq(referenceSymbol.references, LAMBDA r : ~r.isDefinition)
    IN  [i \in 1..Len(yielded) |-> yielded[i].node]
referencingNodesOfSymbol(referenceSymbol) ==
    LET isAlias == referenceSymbol.kind = "alias"
        yielded == SelectSeq(referenceSymbol.references,
                             LAMBDA r : isAlias \/ ~r.isDefinition)
    IN  [i \in 1..Len(yielded) |-> yielded[i].node]

RECURSIVE getReferencingNodes(_)
\* The generator of lines 197-205, run to its end by ArrayUtils.from
getReferencingNodes(references) ==
    IF references = <<>> THEN <<>>
    ELSE referencingNodesOfSymbol(Head(references)) \o getReferencingNodes(Tail(references))

\* getDefinitionReferencingNodes, lines 193-206, of a node of file p:
\* findReferences(node) is findReferencesAtPosition (line 186), whose handles
\* keep the engine's symbols.
GetDefinitionReferencingNodes(p, raw) ==
    SemanticQuery("getDefinitionReferencingNodes", p, NoArg, filledSettings, raw,
                  Defined(getReferencingNodes(OrEmpty(raw))))

\* The settings objects a caller holds and passes, by reference: which
\* optional fields each has set.
SettingsRefs == {1, 2, 3}
CallerSettings ==
    <<[newLineCharacter |-> Undefined, ensureNewLineAtEndOfFile |-> Undefined],
      [newLineCharacter |-> Defined(<<"\r", "\n">>), ensureNewLineAtEndOfFile |-> Undefined],
      [newLineCharacter |-> Undefined, ensureNewLineAtEndOfFile |-> Defined(FALSE)]>>

\* A settings object: ref is the caller's reference to it, 0 for an object the
\* facade made; filled is its _filled mark.
SettingsObject(ref, fields, filled) == [ref |-> ref, fields |-> fields, filled |-> filled]
CallerObject(ref, fs) == SettingsObject(ref, CallerSettings[ref], ref \in fs)

\* global.getFormatCodeSettings(): a new object with the process-wide settings.
getFormatCodeSettings ==
    SettingsObject(0, [newLineCharacter |-> Undefined,
                       ensureNewLineAtEndOfFile |-> Defined(TRUE)], FALSE)

\* ObjectUtils.assign(a, b): b's own properties are copied onto a, and a is
\* returned.
assign(a, b) ==
    SettingsObject(a.ref,
                   [f \in DOMAIN a.fields |->
                       IF b.fields[f].defined THEN b.fields[f] ELSE a.fields[f]],
                   a.filled \/ b.filled)

\* fillDefaultFormatCodeSettings(settings, manipulationSettings): the fields
\* still unset get the defaults; the newline is manipulationSettings' own.
fillDefaultFormatCodeSettings(settings) ==
    [settings EXCEPT
        !.fields.newLineCharacter = IF @.defined THEN @ ELSE Defined(<<"\n">>),
        !.fields.ensureNewLineAtEndOfFile = IF @.defined THEN @ ELSE Defined(TRUE)]

\* _getFilledSettings, lines 342-349: the object returned.
getFilledSettings(settings) ==
    IF settings.filled THEN settings
    ELSE [fillDefaultFormatCodeSettings(assign(getFormatCodeSettings, settings))
            EXCEPT !.filled = TRUE]

\* _getFilledSettings, line 347: the caller's objects that carry the mark once
\* it is set on the object returned.
markFilled(fs, settings) ==
    IF getFilledSettings(settings).ref \in SettingsRefs
    THEN fs \cup {getFilledSettings(settings).ref} ELSE fs

\* Whether _getFilledSettings gets past line 343 and merges and fills.
mergesAndFills(settings) == ~settings.filled

\* What a call that took settings object ref is recorded with: the number of
\* merge-and-fills it made and the settings the engine was given.
SettingsArg(ref, fills, filled) ==
    [pos |-> 0, name |-> <<>>, settings |-> ref, fills |-> fills, filled |-> filled.fields]

\* getFormattingEditsForRange, lines 234-236
GetFormattingEditsForRange(p, ref, raw) ==
    LET settings == CallerObject(ref, filledSettings) IN
    SyntacticQuery("getFormattingEditsForRange", p,
                   SettingsArg(ref, IF mergesAndFills(settings) THEN 1 ELSE 0,
                               getFilledSettings(settings)),
                   markFilled(filledSettings, settings),
                   raw, getFormattingEditsForRange(raw))

\* getFormattingEditsForDocument, lines 243-245
GetFormattingEditsForDocument(p, ref, raw) ==
    LET settings == CallerObject(ref, filledSettings) IN
    SyntacticQuery("getFormattingEditsForDocument", p,
                   SettingsArg(ref, IF mergesAndFills(settings) THEN 1 ELSE 0,
                               getFilledSettings(settings)),
                   markFilled(filledSettings, settings),
                   raw, getFormattingEditsForDocument(raw))

\* fileSystemWrapper.getStandardizedAbsolutePath: a relative path is taken
\* from the current directory, "/".
getStandardizedAbsolutePath(str) ==
    CASE str = "a.ts" -> PathA
      [] str = "./b.ts" -> PathB
      [] OTHER -> str

\* What a caller passes where a source file or a file path is taken.
FileArgs ==
    [isString : {TRUE}, str : {"a.ts", "./b.ts"}]
        \cup [isString : {FALSE}, str : Paths]

\* _getFilePathFromFilePathOrSourceFile, lines 333-340: the path, and whether
\* FileNotFoundError is thrown for it.
getFilePathFromFilePathOrSourceFileUnchecked(c, arg) ==
    [filePath |-> IF arg.isString THEN getStandardizedAbsolutePath(arg.str) ELSE arg.str,
     found |-> TRUE]
getFilePathFromFilePathOrSourceFile(c, arg) ==
    [filePath |-> IF arg.isString THEN getStandardizedAbsolutePath(arg.str) ELSE arg.str,
     found |-> containsSourceFileAtPath(c,
                  IF arg.isString THEN getStandardizedAbsolutePath(arg.str) ELSE arg.str)]

\* What a call that took a source file or a file path is recorded with.
FileArg(arg) == [pos |-> 0, name |-> <<>>, file |-> arg]

\* A query that resolves its file argument first: FileNotFoundError before the
\* engine is reached, else the query on the resolved path.
FileNotFound(op, p, arg) ==
    /\ result' = Outcome(op, p, arg, "FileNotFoundError", Undefined, Undefined)
    /\ UNCHANGED <<cache, storage, version, issued, lastToken, changed, program, filledSettings>>

\* getEmitOutput, lines 282-285
GetEmitOutput(arg, raw) ==
    IF getFilePathFromFilePathOrSourceFile(cache, arg).found
    THEN SemanticQuery("getEmitOutput", getFilePathFromFilePathOrSourceFile(cache, arg).filePath,
                       FileArg(arg), filledSettings, raw, Defined(mapHandles(<<raw.items>>)))
    ELSE FileNotFound("getEmitOutput", getFilePathFromFilePathOrSourceFile(cache, arg).filePath,
                      FileArg(arg))

\* getIdentationAtPosition, lines 301-308: the engine's number is returned.
GetIdentationAtPosition(arg, raw) ==
    IF getFilePathFromFilePathOrSourceFile(cache, arg).found
    THEN SyntacticQuery("getIdentationAtPosition",
                        getFilePathFromFilePathOrSourceFile(cache, arg).filePath,
                        FileArg(arg), filledSettings, raw, raw)
    ELSE FileNotFound("getIdentationAtPosition",
                      getFilePathFromFilePathOrSourceFile(cache, arg).filePath, FileArg(arg))

\* The scope organizeImports hands to the engine, lines 325-328
organizeImportsScope(filePath) == [type |-> "file", fileName |-> filePath]

\* What an organizeImports call is recorded with.
OrganizeImportsArg(arg, ref, fills, filled, scope) ==
    [pos |-> 0, name |-> <<>>, file |-> arg, settings |-> ref, fills |-> fills,
     filled |-> filled.fields, scope |-> scope]

\* organizeImports, lines 324-331: the file is resolved, then the settings are
\* filled, then the engine is called.
OrganizeImports(arg, ref, raw) ==
    LET settings == CallerObject(ref, filledSettings)
        filePath == getFilePathFromFilePathOrSourceFile(cache, arg).filePath
    IN
    IF getFilePathFromFilePathOrSourceFile(cache, arg).found
    THEN /\ version + SemanticCalls <= MaxVersion
         /\ version' = engineGetScriptVersions(version, issued, SemanticCalls).version
         /\ issued' = engineGetScriptVersions(version, issued, SemanticCalls).issued
         /\ filledSettings' = markFilled(filledSettings, settings)
         /\ result' = Outcome("organizeImports", filePath,
                              OrganizeImportsArg(arg, ref,
                                                 IF mergesAndFills(settings) THEN 1 ELSE 0,
                                                 getFilledSettings(settings),
                                                 Defined(organizeImportsScope(filePath))),
                              organizeImportsMap(raw).kind, raw, organizeImportsMap(raw).value)
         /\ UNCHANGED <<cache, storage, lastToken, changed, program>>
    ELSE FileNotFound("organizeImports", filePath, OrganizeImportsArg(arg, ref, 0, settings, Undefined))

\* The texts getTextFromFormattingEdits gives: a document's characters once
\* the edits getFormattingEditsForDocument returned are applied.
EditedTexts ==
    {<<"a">>, <<"a", "\n">>, <<"a", "\r", "\n">>, <<"a", "\n", "b">>, <<"a", "\r", "\n", "b", "\n">>}

\* StringUtils.endsWith
endsWith(text, suffix) ==
    /\ Len(text) >= Len(suffix)
    /\ SubSeq(text, Len(text) - Len(suffix) + 1, Len(text)) = suffix

RECURSIVE replaceNewLines(_, _)
\* newText.replace(/\r?\n/g, newLineChar)
replaceNewLines(text, newLineChar) ==
    IF text = <<>> THEN <<>>
    ELSE IF Len(text) >= 2 /\ text[1] = "\r" /\ text[2] = "\n"
         THEN newLineChar \o replaceNewLines(SubSeq(text, 3, Len(text)), newLineChar)
    ELSE IF text[1] = "\n"
         THEN newLineChar \o replaceNewLines(Tail(text), newLineChar)
    ELSE <<text[1]>> \o replaceNewLines(Tail(text), newLineChar)

\* getFormattedDocumentText, lines 259-265, from the edited text on
getFormattedDocumentText(newText, settings) ==
    replaceNewLines(
        IF settings.ensureNewLineAtEndOfFile /\ ~endsWith(newText, settings.newLineCharacter)
        THEN newText \o settings.newLineCharacter ELSE newText,
        settings.newLineCharacter)

\* getFormattedDocumentText, lines 252-266: the settings are filled on line
\* 257 and the filled object goes to getFormattingEditsForDocument, whose own
\* _getFilledSettings then finds it filled.
GetFormattedDocumentText(p, ref, newText) ==
    LET settings == CallerObject(ref, filledSettings)
        filled == getFilledSettings(settings)
        fills == (IF mergesAndFills(settings) THEN 1 ELSE 0)
                     + (IF mergesAndFills(filled) THEN 1 ELSE 0)
    IN
    IF ~containsSourceFileAtPath(cache, p)
    THEN FileNotFound("getFormattedDocumentText", p, SettingsArg(ref, 0, settings))
    ELSE SyntacticQuery("getFormattedDocumentText", p,
                        SettingsArg(ref, fills, getFilledSettings(filled)),
                        markFilled(markFilled(filledSettings, settings), filled),
                        Defined(newText),
                        Defined(getFormattedDocumentText(newText,
                            [newLineCharacter |-> filled.fields.newLineCharacter.items,
                             ensureNewLineAtEndOfFile |->
                                 filled.fields.ensureNewLineAtEndOfFile.items])))

-----------------------------------------------------------------------------
(* LanguageService: rename, lines 115-143 *)

Loc(p, i) == [path |-> p, index |-> i]

\* Every location there can be, file by file in text order.
LocationOrder ==
    [k \in 1..(2 * MaxLen) |->
        IF k <= MaxLen THEN Loc(PathA, k) ELSE Loc(PathB, k - MaxLen)]

AllLocations == {LocationOrder[k] : k \in 1..Len(LocationOrder)}

\* Up to MaxLocs different locations, in any order.
AllLocationLists ==
    {s \in UNION {[1..n -> AllLocations] : n \in 0..MaxLocs} :
        \A i \in 1..Len(s) : \A j \in 1..Len(s) : i # j => s[i] # s[j]}

InOrder(S) == SelectSeq(LocationOrder, LAMBDA l : l \in S)

\* Up to MaxLocs different locations, file by file in text order.
AllOrderedLocationLists ==
    {InOrder(S) : S \in {T \in SUBSET AllLocations : Cardinality(T) <= MaxLocs}}

\* Whether a location points at a token of a tracked file or into a file that
\* was removed since the location was made.
IsLocation(c, l) == containsSourceFileAtPath(c, l.path) => l.index <= Len(c[l.path])

\* The location lists a caller passes to renameLocations.
LocationLists(c) ==
    {s \in AllLocationLists : \A i \in 1..Len(s) : IsLocation(c, s[i])}

\* The lists the engine's findRenameLocations returns: nothing, or locations in
\* the files it knows, file by file in text order.
EngineLocationLists(c) ==
    {Undefined} \cup
    {Defined(s) : s \in {l \in AllOrderedLocationLists :
        \A i \in 1..Len(l) : containsSourceFileAtPath(c, l[i].path) /\ IsLocation(c, l[i])}}

\* renameLocationsBySourceFile.getOrCreate(sourceFile, () => []).push(location),
\* lines 132-133: the groups keep the order in which their files first appear.
addToGroupsAlwaysNew(groups, loc) ==
    Append(groups, [sourceFile |-> loc.path, locations |-> <<loc>>])
addToGroups(groups, loc) ==
    IF \E i \in 1..Len(groups) : groups[i].sourceFile = loc.path
    THEN [i \in 1..Len(groups) |->
            IF groups[i].sourceFile = loc.path
            THEN [groups[i] EXCEPT !.locations = Append(@, loc)]
            ELSE groups[i]]
    ELSE Append(groups, [sourceFile |-> loc.path, locations |-> <<loc>>])

RECURSIVE groupBySourceFile(_, _)
\* The loop of lines 131-134
groupBySourceFile(groups, locs) ==
    IF locs = <<>> THEN groups
    ELSE groupBySourceFile(addToGroups(groups, Head(locs)), Tail(locs))

\* replaceSourceFileTextForRename: the text with newName at each location.
replaceSourceFileTextForRename(text, locations, newName) ==
    [i \in 1..Len(text) |->
        IF \E k \in 1..Len(locations) : locations[k].index = i THEN newName ELSE text[i]]

\* The call of lines 137-141 for one group: its arguments.
replaceCall(group, newName) ==
    [sourceFile |-> group.sourceFile, renameLocations |-> group.locations, newName |-> newName]

RECURSIVE replaceGroups(_, _, _, _)
\* The loop of lines 136-142: one replacement per file, in the groups' order; a
\* replacement in a file that was removed since throws, and the loop ends there.
\* calls are the replacement calls made so far.
replaceGroups(c, groups, newName, calls) ==
    IF groups = <<>> THEN [kind |-> "ok", cache |-> c, calls |-> calls]
    ELSE IF ~containsSourceFileAtPath(c, Head(groups).sourceFile)
         THEN [kind |-> "InvalidOperationError", cache |-> c,
               calls |-> Append(calls, replaceCall(Head(groups), newName))]
    ELSE replaceGroups(
            [c EXCEPT ![Head(groups).sourceFile] =
                replaceSourceFileTextForRename(@, Head(groups).locations, newName)],
            Tail(groups), newName, Append(calls, replaceCall(Head(groups), newName)))

\* renameLocations, lines 129-143
renameLocations(c, locs, newName) ==
    replaceGroups(c, groupBySourceFile(<<>>, locs), newName, <<>>)

RenameLocations(locs, newName) ==
    /\ cache' = renameLocations(cache, locs, newName).cache
    /\ changed' = Touched(cache', storage)
    /\ result' = Outcome("renameLocations", PathA, [pos |-> 0, name |-> newName],
                         renameLocations(cache, locs, newName).kind, Defined(locs),
                         Defined(renameLocations(cache, locs, newName).calls))
    /\ UNCHANGED <<storage, version, issued, lastToken, program, filledSettings>>

\* FindRenameLocations, lines 222-226, for the node at token pos of a tracked file
FindRenameLocations(p, raw) ==
    SemanticQuery("findRenameLocations", p, NoArg, filledSettings, raw, findRenameLocations(raw))

\* renameNode, lines 115-122, for the node at token pos of tracked file p: which
\* of its three ways the call goes.
renameNodeBranchUnchecked(text, newName) ==
    IF text = newName THEN "same" ELSE "rename"
renameNodeBranchNoShortCircuit(text, newName) ==
    IF IsNullOrWhitespace(newName) THEN "ArgumentNullOrWhitespaceError" ELSE "rename"
renameNodeBranch(text, newName) ==
    IF IsNullOrWhitespace(newName) THEN "ArgumentNullOrWhitespaceError"
    ELSE IF text = newName THEN "same"
    ELSE "rename"

\* renameNode, lines 115-122; raw is what the engine's findRenameLocations
\* returns when the call gets that far.
RenameNode(p, pos, newName) ==
    /\ containsSourceFileAtPath(cache, p)
    /\ pos \in 1..Len(cache[p])
    /\ IF renameNodeBranch(cache[p][pos], newName) = "rename"
       THEN /\ version + SemanticCalls <= MaxVersion
            /\ version' = engineGetScriptVersions(version, issued, SemanticCalls).version
            /\ issued' = engineGetScriptVersions(version, issued, SemanticCalls).issued
            /\ \E raw \in EngineLocationLists(cache) :
                  /\ cache' = renameLocations(cache, OrEmpty(raw), newName).cache
                  /\ result' = Outcome("renameNode", p, [pos |-> pos, name |-> newName],
                                       renameLocations(cache, OrEmpty(raw), newName).kind,
                                       raw,
                                       Defined(renameLocations(cache, OrEmpty(raw),
                                                               newName).calls))
       ELSE /\ result' = Outcome("renameNode", p, [pos |-> pos, name |-> newName],
                                 IF renameNodeBranch(cache[p][pos], newName) = "same"
                                 THEN "ok" ELSE renameNodeBranch(cache[p][pos], newName),
                                 Undefined, Undefined)
            /\ UNCHANGED <<cache, version, issued>>
    /\ changed' = Touched(cache', storage)
    /\ UNCHANGED <<storage, lastToken, program, filledSettings>>

-----------------------------------------------------------------------------
(* The facade: the caller's operations, each a step *)

Next ==
    \/ \E p \in Paths, t \in InputTexts : AddSourceFile(p, t)
    \/ \E p \in Paths : RemoveSourceFile(p)
    \/ \E p \in Paths, t \in InputTexts : EditText(p, t)
    \/ GetProgram
    \/ \E p \in Paths, raw \in EngineLists : GetDefinitionsAtPosition(p, raw)
    \/ \E p \in Paths, raw \in EngineLists : GetImplementationsAtPosition(p, raw)
    \/ \E p \in Paths, raw \in EngineLists : FindReferencesAtPosition(p, raw)
    \/ \E p \in Paths, raw \in EngineReferencedSymbols : GetDefinitionReferencingNodes(p, raw)
    \/ \E p \in Paths, raw \in EngineLocationLists(cache) : FindRenameLocations(p, raw)
    \/ \E p \in Paths, ref \in SettingsRefs, raw \in EngineLists :
          GetFormattingEditsForRange(p, ref, raw)
    \/ \E p \in Paths, ref \in SettingsRefs, raw \in EngineLists :
          GetFormattingEditsForDocument(p, ref, raw)
    \/ \E p \in Paths, ref \in SettingsRefs, t \in EditedTexts :
          GetFormattedDocumentText(p, ref, t)
    \/ \E arg \in FileArgs, raw \in {Defined(<<>>), Defined(<<1>>)} : GetEmitOutput(arg, raw)
    \/ \E arg \in FileArgs, raw \in {Defined(0), Defined(4)} : GetIdentationAtPosition(arg, raw)
    \/ \E arg \in FileArgs, ref \in SettingsRefs, raw \in EngineLists :
          OrganizeImports(arg, ref, raw)
    \/ \E p \in Paths, pos \in 1..MaxLen, n \in NewNames : RenameNode(p, pos, n)
    \/ \E locs \in LocationLists(cache) : RenameLocations(locs, Y)

Spec == Init /\ [][Next]_vars

-----------------------------------------------------------------------------
(* Claims about the facade, checked under Spec *)

PositionQueries ==
    {"getDefinitionsAtPosition", "getImplementationsAtPosition", "findReferencesAtPosition",
     "findRenameLocations", "getFormattingEditsForRange", "getFormattingEditsForDocument",
     "getFormattedDocumentText", "getEmitOutput", "getIdentationAtPosition",
     "organizeImports"}

ListQueries ==
    {"getDefinitionsAtPosition", "getImplementationsAtPosition", "findReferencesAtPosition",
     "findRenameLocations", "getFormattingEditsForRange", "getFormattingEditsForDocument",
     "organizeImports"}

\* C1: a position-based query fails with FileNotFoundError exactly when its
\* path is not tracked at the call: always for an untracked path, never for a
\* tracked one.
C1_FileNotFoundIffUntracked ==
    [][result'.op \in PositionQueries
        => (result'.kind = "FileNotFoundError"
              <=> ~containsSourceFileAtPath(cache, result'.path))]_vars

\* C2: in every state, and so at every query, the file paths the program was
\* built or last reset with are the tracked paths.
C2_ProgramPathsAreTrackedPaths == program.paths = getSourceFilePaths(cache)

\* A query answered after /a.ts was removed: the program holds /b.ts alone.
C2_Witness ==
    /\ result.op = "getDefinitionsAtPosition"
    /\ result.kind = "ok"
    /\ getSourceFilePaths(cache) = {PathB}
    /\ program.state = "Stale"

\* C5: renameNode with the node's own text as the new name returns without
\* asking the engine for rename locations and leaves every file's text, the
\* tracked set, storage, the program and the version counter as they were.
C5_RenameToSameNameIsNoOp ==
    [][(/\ result'.op = "renameNode"
        /\ cache[result'.path][result'.arg.pos] = result'.arg.name)
        => /\ result'.kind = "ok"
           /\ ~result'.raw.defined
           /\ UNCHANGED <<cache, storage, program, version, issued>>]_vars

\* The node at token 2 of /b.ts, whose text is y after an earlier rename, was
\* renamed to y.
C5_Witness ==
    /\ result.op = "renameNode"
    /\ result.kind = "ok"
    /\ result.path = PathB
    /\ result.arg = [pos |-> 2, name |-> Y]
    /\ ~result.raw.defined
    /\ containsSourceFileAtPath(cache, PathB)
    /\ cache[PathB] = <<X, Y>>

\* The locations of a rename call that lie in file p.
LocationsIn(locs, p) == SelectSeq(locs, LAMBDA l : l.path = p)

\* C6: after renameNode or renameLocations returned or failed, either every
\* file with a location has all its locations replaced or no text changed.
C6_RenameIsAtomic ==
    [][result'.op \in {"renameNode", "renameLocations"}
        => \/ cache' = cache
           \/ \A i \in 1..Len(OrEmpty(result'.raw)) :
                LET p == OrEmpty(result'.raw)[i].path IN
                /\ containsSourceFileAtPath(cache, p)
                /\ containsSourceFileAtPath(cache', p)
                /\ cache'[p] = replaceSourceFileTextForRename(
                                  cache[p], LocationsIn(OrEmpty(result'.raw), p),
                                  result'.arg.name)]_vars

\* C7: renameNode with an empty or whitespace-only new name fails with the
\* invalid-argument error, whatever the node's text, without asking the engine
\* and without changing any text, the tracked set, storage or the program.
C7_BlankNameIsRejectedFirst ==
    [][(result'.op = "renameNode" /\ IsNullOrWhitespace(result'.arg.name))
        => /\ result'.kind = "ArgumentNullOrWhitespaceError"
           /\ result'.kind # "FileNotFoundError"
           /\ ~result'.raw.defined
           /\ UNCHANGED <<cache, storage, program, version, issued>>]_vars

\* renameNode was called with a space and a tab as the new name.
C7_Witness ==
    /\ result.op = "renameNode"
    /\ result.arg.name = <<" ", "\t">>
    /\ result.kind = "ArgumentNullOrWhitespaceError"

\* C9: when the engine returns undefined or an empty list to a list-returning
\* query, the query returns an empty sequence: not undefined, not a failure.
C9_EmptyEngineResultIsEmptySequence ==
    [][(/\ result'.op \in ListQueries
        /\ result'.kind \notin {"EngineError", "FileNotFoundError"}
        /\ OrEmpty(result'.raw) = <<>>)
        => /\ result'.kind = "ok"
           /\ result'.value.defined
           /\ result'.value.items = <<>>]_vars

RECURSIVE AllReferences(_)
\* Every reference of the symbols, in the symbols' order and each symbol's
\* order, with its symbol's kind.
AllReferences(symbols) ==
    IF symbols = <<>> THEN <<>>
    ELSE [i \in 1..Len(Head(symbols).references) |->
             [kind |-> Head(symbols).kind, reference |-> Head(symbols).references[i]]]
         \o AllReferences(Tail(symbols))

\* C11: getDefinitionReferencingNodes returns, in the order of the symbols and
\* of each symbol's references, the nodes of exactly the references that are
\* not definition occurrences or whose symbol's definition is an alias: every
\* node of an alias symbol, no definition node of another symbol.
C11_ReferencingNodesSkipDefinitionsUnlessAlias ==
    [][(result'.op = "getDefinitionReferencingNodes" /\ result'.kind = "ok")
        => LET all == AllReferences(OrEmpty(result'.raw))
               kept == SelectSeq(all, LAMBDA a :
                          ~a.reference.isDefinition \/ a.kind = "alias")
               nodes == result'.value.items
           IN  /\ result'.value.defined
               /\ nodes = [i \in 1..Len(kept) |-> kept[i].reference.node]
               /\ \A i \in 1..Len(all) :
                     /\ all[i].kind = "alias"
                           => \E j \in 1..Len(nodes) : nodes[j] = all[i].reference.node
                     /\ (all[i].kind # "alias" /\ all[i].reference.isDefinition)
                           => \A j \in 1..Len(nodes) : nodes[j] # all[i].reference.node]_vars

\* The nodes of an alias symbol, its definition among them, came after the
\* references of a symbol that is no alias, whose definition was left out.
C11_Witness ==
    /\ result.op = "getDefinitionReferencingNodes"
    /\ result.kind = "ok"
    /\ result.raw.defined
    /\ Len(result.raw.items) = 2
    /\ result.raw.items[1].kind = "var"
    /\ result.raw.items[2].kind = "alias"
    /\ result.value.items = <<3, 5, 1, 2>>

\* Whether text ends with a line terminator, \n or \r\n.
EndsWithLineTerminator(text) == text # <<>> /\ text[Len(text)] = "\n"

\* C12: getFormattedDocumentText returns the edited text with every \n and
\* \r\n turned into the configured newline, and one configured newline added
\* only if ensureNewLineAtEndOfFile is set and the edited text does not end
\* with a line terminator; the result has no other terminator, and for an
\* edited text that ends with a terminator it ends with one configured newline
\* and no second one.
C12_FormattedTextEndsWithOneNewLine ==
    [][(result'.op = "getFormattedDocumentText" /\ result'.kind = "ok")
        => LET newLine == result'.arg.filled.newLineCharacter.items
               ensure == result'.arg.filled.ensureNewLineAtEndOfFile.items
               edited == result'.raw.items
               text == result'.value.items
           IN  /\ text = replaceNewLines(edited, newLine)
                            \o (IF ensure /\ ~EndsWithLineTerminator(edited)
                                THEN newLine ELSE <<>>)
               /\ \A i \in 1..Len(text) :
                     text[i] = "\n"
                         => ((i > 1 /\ text[i - 1] = "\r") <=> newLine = <<"\r", "\n">>)
               /\ EndsWithLineTerminator(edited)
                     => /\ endsWith(text, newLine)
                        /\ ~endsWith(text, newLine \o newLine)]_vars

SettingsQueries ==
    {"getFormattingEditsForRange", "getFormattingEditsForDocument",
     "getFormattedDocumentText", "organizeImports"}

\* C13: of two calls in a row that are passed the same settings object, only
\* the first merges and fills, the second finds the object marked; and filling
\* the filled values once more gives the same values.
C13_SettingsAreFilledOncePerObject ==
    [][(/\ result'.op \in SettingsQueries
        /\ result.op \in SettingsQueries
        /\ result.arg.settings = result'.arg.settings
        /\ result.arg.fills >= 1)
        => /\ result'.arg.fills = 0
           /\ result'.kind # "FileNotFoundError"
                => getFilledSettings(SettingsObject(0, result'.arg.filled, FALSE)).fields
                       = result'.arg.filled]_vars

FileQueries == {"getEmitOutput", "organizeImports", "getIdentationAtPosition"}

\* C14: getEmitOutput, organizeImports and getIdentationAtPosition take a
\* source file or a path string to one standardized absolute path, fail with
\* FileNotFoundError exactly when that path is not tracked, then without any
\* call of the engine, and organizeImports hands the engine the scope of that
\* one file.
C14_FileArgumentIsResolvedAndChecked ==
    [][result'.op \in FileQueries
        => /\ result'.path \in Paths
           /\ result'.arg.file.str \in {"a.ts", PathA} => result'.path = PathA
           /\ result'.arg.file.str \in {"./b.ts", PathB} => result'.path = PathB
           /\ result'.kind = "FileNotFoundError"
                 <=> ~containsSourceFileAtPath(cache, result'.path)
           /\ result'.kind = "FileNotFoundError"
                 => UNCHANGED <<cache, storage, version, issued, program, filledSettings>>
           /\ (result'.op = "organizeImports" /\ result'.kind # "FileNotFoundError")
                 => result'.arg.scope = Defined([type |-> "file", fileName |-> result'.path])]_vars

\* organizeImports was given the string "./b.ts" while /b.ts was not tracked.
C14_Witness ==
    /\ result.op = "organizeImports"
    /\ result.arg.file = [isString |-> TRUE, str |-> "./b.ts"]
    /\ result.path = PathB
    /\ result.kind = "FileNotFoundError"
    /\ ~containsSourceFileAtPath(cache, PathB)

ProgramStates == {"Built", "Stale"}

\* What the program lifecycle asks of every step, whatever the operation: built
\* after construction, never uninitialized, stale with the tracked paths after
\* a file was added or removed, built from the tracked paths after an access.
ProgramLifecycleStep ==
    /\ result.op = "constructor"
          => program = [state |-> "Built", paths |-> getSourceFilePaths(cache)]
    /\ program'.state \in ProgramStates
    /\ result'.op \in {"addSourceFile", "removeSourceFile"}
          => program' = [state |-> "Stale", paths |-> getSourceFilePaths(cache')]
    /\ (result'.op = "getProgram" /\ program.state = "Stale")
          => program' = [state |-> "Built", paths |-> getSourceFilePaths(cache')]

C17_OneReplacementPerSourceFile ==
    [][result'.op \in {"renameNode", "renameLocations"} /\ result'.value.defined
        => LET locs == OrEmpty(result'.raw)
               calls == result'.value.items
           IN  /\ \A p \in Paths :
                     LET callsOf == SelectSeq(calls, LAMBDA c : c.sourceFile = p) IN
                     /\ Len(callsOf) <= 1
                     /\ LocationsIn(locs, p) = <<>> => callsOf = <<>>
                     /\ \A k \in 1..Len(callsOf) :
                           /\ callsOf[k].renameLocations = LocationsIn(locs, p)
                           /\ callsOf[k].newName = result'.arg.name
                     /\ (result'.kind = "ok" /\ LocationsIn(locs, p) # <<>>)
                           => Len(callsOf) = 1
               /\ result'.kind = "ok"
                     => \A i \in 1..Len(locs) :
                          Cardinality({k \in 1..Len(calls) :
                              \E j \in 1..Len(calls[k].renameLocations) :
                                  calls[k].renameLocations[j] = locs[i]}) = 1]_vars

\* Three locations were renamed, the first and the third in one file and the
\* second in the other: two calls.
C17_Witness ==
    /\ result.op = "renameLocations"
    /\ result.kind = "ok"
    /\ Len(result.raw.items) = 3
    /\ result.raw.items[1].path = result.raw.items[3].path
    /\ result.raw.items[1].path # result.raw.items[2].path
    /\ Len(result.value.items) = 2
    /\ Len(result.value.items[1].renameLocations) = 2

-----------------------------------------------------------------------------
(* Claims about the host callbacks, checked under HostSpec *)

\* C3: every getScriptVersion call returns a token that is, read as an integer,
\* strictly greater than the token of every earlier call, whatever the paths
\* and however many program resets lie between.
C3_VersionsStrictlyIncrease ==
    \A i \in 1..Len(issued) : \A j \in 1..Len(issued) :
        i < j => ParseInt(issued[i]) < ParseInt(issued[j])

\* Three calls were made, for both paths, and the program was reset meanwhile.
C3_Witness ==
    /\ Len(issued) >= 3
    /\ result.op = "getScriptVersion"
    /\ program.state = "Stale"
    /\ \A p \in Paths : lastToken[p] # NoToken

\* C4 as claimed: a getScriptVersion call returns a token that differs from the
\* token of the previous call for the same path if and only if the content of
\* the path changed between the two calls.
C4_TokenChangesIffContentChanged ==
    [][(result'.op = "getScriptVersion" /\ lastToken[result'.path] # NoToken)
        => ((result'.value.items # lastToken[result'.path]) <=> changed[result'.path])]_vars

\* C4 as amended: a getScriptVersion call returns a token that differs from the
\* token of the previous call for the same path when the content changed
\* between the two calls, and when it did not change as well.
C4_TokenAlwaysChanges ==
    [][(result'.op = "getScriptVersion" /\ lastToken[result'.path] # NoToken)
        => /\ changed[result'.path] => result'.value.items # lastToken[result'.path]
           /\ ~changed[result'.path] => result'.value.items # lastToken[result'.path]]_vars

\* A second call for a path whose content changed since the first.
C4_Witness ==
    /\ result.op = "getScriptVersion"
    /\ result.raw.prev # NoToken
    /\ result.raw.changed
    /\ result.value.items # result.raw.prev

\* C8: getScriptSnapshot for a path that is neither cached nor in storage
\* returns undefined, does not throw, and leaves the tracked files, their
\* texts, storage and the program as they were.
C8_SnapshotOfMissingPathIsUndefined ==
    [][(result'.op = "getScriptSnapshot" /\ ~fileExistsSync(cache, storage, result'.path))
        => /\ result'.kind = "ok"
           /\ ~result'.value.defined
           /\ UNCHANGED <<cache, storage, program>>]_vars

\* A snapshot was asked of a path that is in neither place.
C8_Witness ==
    /\ result.op = "getScriptSnapshot"
    /\ ~containsSourceFileAtPath(cache, result.path)
    /\ ~fileSystemExistsSync(storage, result.path)
    /\ ~result.value.defined

\* C10: in every reachable state and for every setting and path, each callback
\* the two hosts share returns the same from compilerHost as from
\* languageServiceHost.
C10_HostsAgree ==
    \A cfg \in Configs : \A options \in {"ES5", "ES2015", "ES2017"} : \A p \in Paths :
        /\ compilerGetDefaultLibFileName(cfg, options) = lsGetDefaultLibFileName(cfg, options)
        /\ compilerUseCaseSensitiveFileNames = lsUseCaseSensitiveFileNames
        /\ compilerGetNewLine(cfg) = lsGetNewLine(cfg)
        /\ compilerGetCurrentDirectory(cfg) = lsGetCurrentDirectory(cfg)
        /\ compilerFileExists(cache, storage, p) = lsFileExists(cache, storage, p)
        /\ compilerReadFile(cache, storage, p) = lsReadFile(cache, storage, p, "none")

\* A tracked file was read whose text in storage differs from the cached text,
\* while the other path is in neither place.
C10_Witness ==
    /\ result.op = "readFile"
    /\ containsSourceFileAtPath(cache, result.path)
    /\ fileSystemExistsSync(storage, result.path)
    /\ storage[result.path] # cache[result.path]
    /\ \E q \in Paths : ~fileExistsSync(cache, storage, q)

\* C16: in every state the host answers from the cache first and storage
\* second: getScriptFileNames is the tracked paths, readFile and
\* getScriptSnapshot give a tracked path's cached text whatever storage holds
\* for it and an untracked path's stored text, and fileExists holds exactly of
\* the paths that are tracked or in storage.
C16_CacheWinsOverStorage ==
    /\ getScriptFileNames(cache) = DOMAIN cache
    /\ \A p \in Paths :
          /\ p \in DOMAIN cache
                => /\ lsReadFile(cache, storage, p, "none") = [kind |-> "ok", value |-> Defined(cache[p])]
                   /\ getScriptSnapshot(cache, storage, p).value = Defined(cache[p])
          /\ (p \notin DOMAIN cache /\ p \in DOMAIN storage)
                => /\ lsReadFile(cache, storage, p, "none") = [kind |-> "ok", value |-> Defined(storage[p])]
                   /\ getScriptSnapshot(cache, storage, p).value = Defined(storage[p])
          /\ lsFileExists(cache, storage, p) <=> (p \in DOMAIN cache \/ p \in DOMAIN storage)
    /\ result.op \in {"readFile", "getScriptSnapshot"}
          => result.value = result.raw

\* A tracked file edited in place, with another text written to storage for
\* it, was read: the edited text came back.
C16_Witness ==
    /\ result.op = "readFile"
    /\ containsSourceFileAtPath(cache, result.path)
    /\ fileSystemExistsSync(storage, result.path)
    /\ storage[result.path] = <<Y>>
    /\ cache[result.path] = <<X, X>>
    /\ result.value = Defined(<<X, X>>)

\* C18: getScriptSnapshot and compilerHost.getSourceFile for a path that is in
\* storage and not tracked load the file: the path is tracked with the stored
\* text from then on, which is also what is returned, and the program is
\* reset with the new tracked paths.
C18_SnapshotLoadsAndResets ==
    [][(/\ result'.op \in {"getScriptSnapshot", "getSourceFile"}
        /\ ~containsSourceFileAtPath(cache, result'.path)
        /\ fileSystemExistsSync(storage, result'.path))
        => /\ cache' = Put(cache, result'.path, storage[result'.path])
           /\ result'.value = Defined(storage[result'.path])
           /\ program' = [state |-> "Stale",
                          paths |-> getSourceFilePaths(cache) \cup {result'.path}]
           /\ UNCHANGED storage]_vars

\* A snapshot was asked of /b.ts after it was removed and written to storage:
\* it is tracked again, with the written text, and the program is stale.
C18_Witness ==
    /\ result.op = "getScriptSnapshot"
    /\ result.path = PathB
    /\ containsSourceFileAtPath(cache, PathB)
    /\ cache[PathB] = <<Y>>
    /\ result.value = Defined(<<Y>>)
    /\ program = [state |-> "Stale", paths |-> getSourceFilePaths(cache)]

ReadOnlyCallbacks ==
    {"readFile", "fileExists", "directoryExists", "getScriptFileNames", "getScriptVersion"}

\* C19: readFile, fileExists, directoryExists, getScriptFileNames and
\* getScriptVersion leave the tracked files, their texts, storage and the
\* program as they were, for any path; getScriptVersion adds one to the
\* version counter and the others leave it too.
C19_ReadCallbacksChangeNothing ==
    [][result'.op \in ReadOnlyCallbacks
        => /\ UNCHANGED <<cache, storage, program>>
           /\ IF result'.op = "getScriptVersion"
              THEN version' = version + 1
              ELSE UNCHANGED <<version, issued>>]_vars

\* readFile was called for a path that is in storage and not tracked: the
\* stored text came back and the path is still not tracked.
C19_Witness ==
    /\ result.op = "readFile"
    /\ result.kind = "ok"
    /\ ~containsSourceFileAtPath(cache, result.path)
    /\ fileSystemExistsSync(storage, result.path)
    /\ result.value = Defined(storage[result.path])

\* C20: compilerHost.writeFile puts the data in storage and leaves the tracked
\* files, their texts, the program and the version counter as they were; a
\* readFile of a tracked path, also right after a writeFile to it, returns
\* the cached text.
C20_WriteFileChangesStorageOnly ==
    [][/\ result'.op = "writeFile"
          => /\ storage' = Put(storage, result'.path, result'.raw.items)
             /\ UNCHANGED <<cache, program, version, issued>>
             /\ containsSourceFileAtPath(cache, result'.path)
                   => lsReadFile(cache', storage', result'.path, "none").value
                          = Defined(cache[result'.path])
       /\ (/\ result'.op = "readFile"
           /\ result.op = "writeFile"
           /\ result'.path = result.path
           /\ containsSourceFileAtPath(cache, result.path))
          => result'.value = Defined(cache[result.path])]_vars

\* y was written to a tracked path whose cached text is x x.
C20_Witness ==
    /\ result.op = "writeFile"
    /\ result.raw = Defined(<<Y>>)
    /\ containsSourceFileAtPath(cache, result.path)
    /\ cache[result.path] = <<X, X>>
    /\ storage[result.path] = <<Y>>

====
